---- MODULE Spec2Model ----
(***************************************************************************)
(* Model of agent-knowledge-distiller: the heuristic scorer (scoreMemory), *)
(* the pre-filter, the batch LLM scorer (LLMScorerService.scoreBatch) and  *)
(* the selection / aggregation engine (DistillerService.distill).          *)
(*                                                                         *)
(* A text is the record [head, fill, tail]: the string head, followed by   *)
(* fill copies of the filler character, followed by the string tail.  It   *)
(* is a run-length encoding of a JavaScript string, so that texts longer   *)
(* than the 200 and 500 character thresholds stay small values.            *)
(***************************************************************************)
EXTENDS Integers, Sequences, FiniteSets, TLC

VARIABLES
    pc,               \* position of the running operation
    fnIn,             \* argument of the pure function under check
    fnOut,            \* its result
    store,            \* the source collection: a sequence of AgentMemory
    config,           \* the DistillConfig passed to distill
    llmScorer,        \* the LLMScorerService built at line 28, if any
    agentIdx,         \* index of the group the for loop of distill is at
    filtered,         \* pre-filtered memories of the current group
    batchI,           \* loop variable i of scoreBatch
    results,          \* results array of scoreBatch
    scored,           \* scored list of the group distill scored last
    lastResp,         \* the LLM response to the chunk request in progress
    selectedByAgent,  \* selectedByAgent: key order and values
    report,           \* the DistillReport under construction
    golden,           \* the destination collection
    calls,            \* the store and LLM operations of the run, in order
    env,              \* process.env: LLM_SCORING_ENABLED and LLM_BATCH_SIZE
    outcome,          \* how the promise of distill has settled
    clock,            \* the last value Date.now() returned
    stamps,           \* Date.now() given to memories whose point has no timestamp
    lastRun           \* the earlier run of distill and the destination it left

vars == <<pc, fnIn, fnOut, store, config, llmScorer, agentIdx, filtered,
          batchI, results, scored, lastResp, selectedByAgent, report,
          golden, calls, env, outcome, clock, stamps, lastRun>>

null == "null"

\* the promise distill returns, not settled yet
Pending == [kind |-> "pending"]

\* llmScorer when no LLMScorerService is built
NoScorer == [present |-> FALSE, batchSize |-> 0]

\* lastResp while no response has arrived
NoResponse == [kind |-> "none", items |-> <<>>]

(***************************************************************************)
(* Strings                                                                 *)
(***************************************************************************)
Filler == "z"

Min(a, b) == IF a < b THEN a ELSE b
Max(a, b) == IF a > b THEN a ELSE b

RECURSIVE Repeat(_, _)
Repeat(s, n) == IF n <= 0 THEN "" ELSE s \o Repeat(s, n - 1)

Txt(s) == [head |-> s, fill |-> 0, tail |-> ""]

\* String.prototype.length
Length(t) == Len(t.head) + t.fill + Len(t.tail)

UpperAlpha == "ABCDEFGHIJKLMNOPQRSTUVWXYZ"
LowerAlpha == "abcdefghijklmnopqrstuvwxyz"

LowerChar(c) ==
    IF \E i \in 1..Len(UpperAlpha) : SubSeq(UpperAlpha, i, i) = c
    THEN LET i == CHOOSE j \in 1..Len(UpperAlpha) : SubSeq(UpperAlpha, j, j) = c
         IN  SubSeq(LowerAlpha, i, i)
    ELSE c

RECURSIVE LowerStr(_)
LowerStr(s) ==
    IF s = "" THEN ""
    ELSE LowerChar(SubSeq(s, 1, 1)) \o LowerStr(SubSeq(s, 2, Len(s)))

\* String.prototype.toLowerCase
toLowerCase(t) ==
    [head |-> LowerStr(t.head), fill |-> t.fill, tail |-> LowerStr(t.tail)]

StrIncludes(s, kw) ==
    \E i \in 1..(Len(s) - Len(kw) + 1) : SubSeq(s, i, i + Len(kw) - 1) = kw

\* String.prototype.includes: an occurrence of kw touches at most Len(kw)
\* characters of the filler run
includes(t, kw) ==
    StrIncludes(t.head \o Repeat(Filler, Min(t.fill, Len(kw))) \o t.tail, kw)

RECURSIVE TrimStart(_)
TrimStart(s) ==
    IF s # "" /\ SubSeq(s, 1, 1) = " " THEN TrimStart(SubSeq(s, 2, Len(s))) ELSE s

RECURSIVE TrimEnd(_)
TrimEnd(s) ==
    IF s # "" /\ SubSeq(s, Len(s), Len(s)) = " "
    THEN TrimEnd(SubSeq(s, 1, Len(s) - 1)) ELSE s

\* String.prototype.trim
trim(t) ==
    IF t.fill > 0
    THEN [head |-> TrimStart(t.head), fill |-> t.fill, tail |-> TrimEnd(t.tail)]
    ELSE Txt(TrimEnd(TrimStart(t.head \o t.tail)))

\* String.prototype.slice(0, n), n >= 0
SliceTo(t, n) ==
    LET h == Min(n, Len(t.head))
        f == Min(Max(n - Len(t.head), 0), t.fill)
        r == Min(Max(n - Len(t.head) - t.fill, 0), Len(t.tail))
    IN  [head |-> SubSeq(t.head, 1, h), fill |-> f, tail |-> SubSeq(t.tail, 1, r)]

\* the canonical form of a text: an empty filler run leaves one string
Norm(t) == IF t.fill = 0 THEN Txt(t.head \o t.tail) ELSE t

\* template literal `${t}...`
AppendStr(t, s) ==
    Norm([head |-> t.head, fill |-> t.fill, tail |-> t.tail \o s])

(***************************************************************************)
(* Categories                                                              *)
(***************************************************************************)
DEFAULT_CATEGORIES ==
    {"trading_win_pattern", "trading_loss_lesson", "market_insight",
     "bug_fix_pattern", "architecture_decision", "code_pattern",
     "process_improvement", "project_context", "system_rule"}

ALLOWED_CATEGORIES == DEFAULT_CATEGORIES \cup {"noise"}

SeqIncludes(s, x) == \E i \in 1..Len(s) : s[i] = x

Range(s) == {s[i] : i \in 1..Len(s)}

(***************************************************************************)
(* Pre-filter                                                              *)
(***************************************************************************)
JunkWords == {"ok", "yes", "no", "done", "test"}

\* mutant: a trimmed text of exactly 20 characters is rejected too
preFilter_LengthInclusive(memory) ==
    LET text  == trim(memory.text)
        lower == toLowerCase(text)
    IN  IF Length(text) <= 20 THEN FALSE
        ELSE IF includes(lower, "subagent direct hook test") THEN FALSE
        ELSE IF includes(lower, "skipping:") THEN FALSE
        ELSE IF includes(lower, "no output") THEN FALSE
        ELSE IF \E w \in JunkWords : lower = Txt(w) THEN FALSE
        ELSE TRUE

preFilter(memory) ==
    LET text  == trim(memory.text)
        lower == toLowerCase(text)
    IN  IF Length(text) < 20 THEN FALSE
        ELSE IF includes(lower, "subagent direct hook test") THEN FALSE
        ELSE IF includes(lower, "skipping:") THEN FALSE
        ELSE IF includes(lower, "no output") THEN FALSE
        ELSE IF \E w \in JunkWords : lower = Txt(w) THEN FALSE
        ELSE TRUE

(***************************************************************************)
(* Heuristic scorer                                                        *)
(***************************************************************************)
BaseScore == 50

AnyOf(text, kws) == \E k \in kws : includes(text, k)

\* the seven positive keyword groups, in the order of the if statements
\* (the first letter of the third "fix" keyword, U+0111, is written "d":
\* the lexer does not read it; no text of the model holds that keyword)
PositiveSignals ==
    << [kws |-> {"win", "thắng", "lợi nhuận"},          delta |-> 15, tag |-> "win"],
       [kws |-> {"pattern", "mẫu"},                     delta |-> 10, tag |-> "pattern"],
       [kws |-> {"fix", "resolved", "dã sửa"},          delta |-> 10, tag |-> "fix"],
       [kws |-> {"rule", "quy tắc", "luật"},            delta |-> 10, tag |-> "rule"],
       [kws |-> {"rsi", "macd", "sma"},                 delta |-> 5,  tag |-> "technical"],
       [kws |-> {"architecture", "design"},             delta |-> 10, tag |-> "architecture"],
       [kws |-> {"lesson", "bài học", "kinh nghiệm"},   delta |-> 15, tag |-> "lesson"] >>

RECURSIVE CollectTags(_, _)
CollectTags(text, k) ==
    IF k = 0 THEN <<>>
    ELSE LET rest == CollectTags(text, k - 1)
         IN  IF AnyOf(text, PositiveSignals[k].kws)
             THEN Append(rest, PositiveSignals[k].tag) ELSE rest

\* mutant: a group adds its delta once for every keyword of it that occurs
RECURSIVE PositiveSum_PerKeyword(_, _)
PositiveSum_PerKeyword(text, k) ==
    IF k = 0 THEN 0
    ELSE PositiveSum_PerKeyword(text, k - 1)
         + Cardinality({kw \in PositiveSignals[k].kws : includes(text, kw)})
           * PositiveSignals[k].delta

RECURSIVE PositiveSum(_, _)
PositiveSum(text, k) ==
    IF k = 0 THEN 0
    ELSE PositiveSum(text, k - 1)
         + (IF AnyOf(text, PositiveSignals[k].kws) THEN PositiveSignals[k].delta ELSE 0)

LengthBonus(text) ==
    (IF Length(text) > 200 THEN 5 ELSE 0) + (IF Length(text) > 500 THEN 5 ELSE 0)

Penalties(text) ==
      (IF includes(text, "error") /\ includes(text, "500") THEN 10 ELSE 0)
    + (IF Length(text) < 30 THEN 20 ELSE 0)
    + (IF includes(text, "skipping") \/ includes(text, "no output") THEN 15 ELSE 0)
    + (IF includes(text, "test") /\ ~includes(text, "backtest") THEN 10 ELSE 0)

\* the running total before the final clamp
RawScore(text) ==
    BaseScore + PositiveSum(text, Len(PositiveSignals)) + LengthBonus(text)
    - Penalties(text)

\* the group / tag priority table
GroupCategory(agent, text, tags, score) ==
    IF agent = "trader" THEN
        IF SeqIncludes(tags, "win") THEN "trading_win_pattern"
        ELSE IF includes(text, "thua") \/ includes(text, "loss")
                \/ includes(text, "stop loss") THEN "trading_loss_lesson"
        ELSE IF SeqIncludes(tags, "technical") \/ includes(text, "market")
                \/ includes(text, "thị trường") THEN "market_insight"
        ELSE IF score > 50 THEN "market_insight"
        ELSE "noise"
    ELSE IF agent = "fullstack" THEN
        IF SeqIncludes(tags, "fix") THEN "bug_fix_pattern"
        ELSE IF SeqIncludes(tags, "architecture") THEN "architecture_decision"
        ELSE IF score > 50 THEN "code_pattern"
        ELSE "noise"
    ELSE IF agent = "scrum" THEN
        IF score > 50 THEN "process_improvement" ELSE "noise"
    ELSE IF agent = "assistant" THEN
        IF SeqIncludes(tags, "rule") THEN "system_rule"
        ELSE IF score > 55 THEN "project_context"
        ELSE "noise"
    ELSE "noise"

\* mutant: the rule-tag override is missing
FinalCategory_NoRuleOverride(category, tags, score) ==
    IF score < 30 THEN "noise" ELSE category

\* the two universal overrides, rule tag first, noise floor last
FinalCategory(category, tags, score) ==
    LET c1 == IF SeqIncludes(tags, "rule") THEN "system_rule" ELSE category
    IN  IF score < 30 THEN "noise" ELSE c1

ClampHeuristic(score) == Min(100, Max(0, score))

scoreMemory(memory) ==
    LET text  == toLowerCase(memory.text)
        tags  == CollectTags(text, Len(PositiveSignals))
        score == RawScore(text)
        category == FinalCategory(
                        GroupCategory(memory.source_agent, text, tags, score),
                        tags, score)
    IN  [id            |-> memory.id,
         text          |-> memory.text,
         source_agent  |-> memory.source_agent,
         qualityScore  |-> ClampHeuristic(score),
         category      |-> category,
         tags          |-> tags,
         scoringMethod |-> "rule",
         distilledText |-> "undefined",
         llmReasoning  |-> "undefined"]

(***************************************************************************)
(* Selection: filter, rank, cap, preview                                   *)
(***************************************************************************)
PreviewSize == 5
PreviewTextLength == 160

\* mutant: a record is placed before the records of equal score
RECURSIVE InsertDesc_TiesReversed(_, _)
InsertDesc_TiesReversed(sorted, x) ==
    IF sorted = <<>> THEN <<x>>
    ELSE IF x.qualityScore - Head(sorted).qualityScore >= 0
         THEN <<x>> \o sorted
         ELSE <<Head(sorted)>> \o InsertDesc_TiesReversed(Tail(sorted), x)

\* place x behind every element the comparator does not order after it
RECURSIVE InsertDesc(_, _)
InsertDesc(sorted, x) ==
    IF sorted = <<>> THEN <<x>>
    ELSE IF x.qualityScore - Head(sorted).qualityScore > 0
         THEN <<x>> \o sorted
         ELSE <<Head(sorted)>> \o InsertDesc(Tail(sorted), x)

RECURSIVE SortSteps(_, _)
SortSteps(done, todo) ==
    IF todo = <<>> THEN done
    ELSE SortSteps(InsertDesc(done, Head(todo)), Tail(todo))

\* Array.prototype.sort((a, b) => b.qualityScore - a.qualityScore): stable
SortByScoreDesc(s) == SortSteps(<<>>, s)

\* mutant: the slice keeps one element too many
Slice_OffByOne(s, n) ==
    IF n >= 0 THEN SubSeq(s, 1, Min(n + 1, Len(s)))
    ELSE SubSeq(s, 1, Max(Len(s) + n, 0))

\* Array.prototype.slice(0, n)
Slice(s, n) ==
    IF n >= 0 THEN SubSeq(s, 1, Min(n, Len(s)))
    ELSE SubSeq(s, 1, Max(Len(s) + n, 0))

AboveMin(list, cfg) ==
    LET Test(m) == m.qualityScore >= cfg.minQualityScore
    IN  SelectSeq(list, Test)

\* mutant: the noise filter is missing
NotNoise_Missing(list) == list

NotNoise(list) ==
    LET Test(m) == m.category # "noise"
    IN  SelectSeq(list, Test)

InCategories(list, cfg) ==
    LET Test(m) == m.category \in cfg.categories
    IN  SelectSeq(list, Test)

\* the three filters of the chain
Retained(list, cfg) == InCategories(NotNoise(AboveMin(list, cfg)), cfg)

\* mutant: the cap is applied before the ranking
SelectTop_CapBeforeSort(list, cfg) ==
    SortByScoreDesc(Slice(Retained(list, cfg), cfg.maxOutputPerAgent))

\* the filter / sort / slice chain that yields top
SelectTop(list, cfg) ==
    Slice(SortByScoreDesc(Retained(list, cfg)), cfg.maxOutputPerAgent)

truncate(text, length) ==
    IF Length(text) > length THEN AppendStr(SliceTo(text, length - 3), "...")
    ELSE text

PreviewEntry(memory) ==
    [text     |-> truncate(memory.text, PreviewTextLength),
     score    |-> memory.qualityScore,
     category |-> memory.category]

\* topMemories of one group
TopMemories(top) ==
    LET head == Slice(top, PreviewSize)
    IN  [i \in 1..Len(head) |-> PreviewEntry(head[i])]

(***************************************************************************)
(* The memories of the source collection                                   *)
(***************************************************************************)
Memory(id, agent, text) == [id |-> id, text |-> text, source_agent |-> agent]

\* the memories the source collection is drawn from, in scroll order
PoolOrder ==
    << Memory("t1", "trader",
              [head |-> "win pattern lesson fix design RSI", fill |-> 200, tail |-> ""]),
       Memory("t2", "trader", Txt("rule skipping test error 500")),
       Memory("t3", "trader", Txt("  ok  ")),
       Memory("t4", "trader", Txt("market RSI backtest notes")),
       Memory("a1", "assistant", Txt("lesson rule design review")) >>

Pool == Range(PoolOrder)

\* the points of the pool whose payload has no timestamp: getAllMemories
\* gives their memory the value of Date.now() (line 60)
Untimed == {"t4"}

\* the payload timestamp of the other points
PayloadTimestamp == 0

\* the largest value of Date.now()
MaxClock == 1

\* scoreMemory and preFilter on the memories of the pool, computed once
PoolScores == [m \in Pool |-> scoreMemory(m)]
PoolAccepted == [m \in Pool |-> preFilter(m)]

\* scoreMemory(memory) for a memory read from the source collection
Heuristic(memory) == PoolScores[memory]

\* preFilter(memory) for a memory read from the source collection
Accepted(memory) == PoolAccepted[memory]

(***************************************************************************)
(* Batch LLM scorer                                                        *)
(*                                                                         *)
(* A JavaScript number is [finite, tenths]: a finite value in tenths, or   *)
(* a non-finite one (NaN, Infinity), which is what Number() makes of a     *)
(* missing or non-numeric field.                                           *)
(*                                                                         *)
(* An LLM response is [kind, items]: kind says how far the request got     *)
(* ("transport": fetch rejects; "status": response.ok is false; "empty":   *)
(* no content; "malformed": JSON.parse throws; "nonarray": the parsed      *)
(* value is no array; "array": a JSON array), items are the array's        *)
(* objects after the Number() / String() conversions of parseScores.       *)
(***************************************************************************)
Num(v) == [finite |-> TRUE, tenths |-> 10 * v]
Tenths(t) == [finite |-> TRUE, tenths |-> t]
NaN == [finite |-> FALSE, tenths |-> 0]

FallbackScore == 50

\* Math.round: to the nearest integer, halves up
Round(n) == (n.tenths + 5) \div 10

\* mutant: the score is rounded but not clamped from above
clampScore_NoUpperBound(score) ==
    IF ~score.finite THEN FallbackScore
    ELSE Max(0, Round(score))

clampScore(score) ==
    IF ~score.finite THEN FallbackScore
    ELSE Min(100, Max(0, Round(score)))

\* the filter at the end of parseScores
parseScores(items) ==
    LET Test(item) == item.index.finite /\ item.score.finite
    IN  SelectSeq(items, Test)

\* scores.find((s) => s.index === idx) finds an entry
Found(scores, idx) == \E k \in 1..Len(scores) : scores[k].index = Num(idx)

\* the entry it finds: the first match
Find(scores, idx) ==
    scores[CHOOSE k \in 1..Len(scores) :
               /\ scores[k].index = Num(idx)
               /\ \A j \in 1..(k - 1) : scores[j].index # Num(idx)]

\* the heuristic result with the marker tag appended
Fallback(memory) ==
    LET fallback == Heuristic(memory)
    IN  [fallback EXCEPT !.tags = Append(fallback.tags, "llm-fallback")]

LlmScored(memory, llmScore) ==
    LET category == IF llmScore.category \in ALLOWED_CATEGORIES
                    THEN llmScore.category ELSE "noise"
    IN  [id            |-> memory.id,
         text          |-> memory.text,
         source_agent  |-> memory.source_agent,
         qualityScore  |-> clampScore(llmScore.score),
         category      |-> category,
         tags          |-> <<category, "llm-scored">>,
         scoringMethod |-> "llm",
         distilledText |-> llmScore.reasoning,
         llmReasoning  |-> llmScore.reasoning]

\* the statements of the try block that throw
Throws(resp) == resp.kind \in {"transport", "status", "empty", "malformed", "nonarray"}

\* mutant: the catch block returns the heuristic result without the marker tag
scoreSingleBatch_NoFallbackTag(batch, resp) ==
    IF Throws(resp)
    THEN [idx \in 1..Len(batch) |-> Heuristic(batch[idx])]
    ELSE LET scores == parseScores(resp.items)
         IN  [idx \in 1..Len(batch) |->
                 IF ~Found(scores, idx - 1) THEN Fallback(batch[idx])
                 ELSE LlmScored(batch[idx], Find(scores, idx - 1))]

\* positions of a chunk are 0-based in the response
scoreSingleBatch(batch, resp) ==
    IF Throws(resp)
    THEN [idx \in 1..Len(batch) |-> Fallback(batch[idx])]
    ELSE LET scores == parseScores(resp.items)
         IN  [idx \in 1..Len(batch) |->
                 IF ~Found(scores, idx - 1) THEN Fallback(batch[idx])
                 ELSE LlmScored(batch[idx], Find(scores, idx - 1))]

\* mutant: the chunk ends one element early
Chunk_OffByOne(memories, i, batchSize) ==
    SubSeq(memories, i + 1, Min(i + batchSize - 1, Len(memories)))

\* memories.slice(i, i + batchSize)
Chunk(memories, i, batchSize) ==
    SubSeq(memories, i + 1, Min(i + batchSize, Len(memories)))

(***************************************************************************)
(* Inputs                                                                  *)
(***************************************************************************)
MaxWords == 2

Agents == {"trader", "fullstack", "scrum", "assistant", "other"}

Phrases ==
    {"win", "win pattern lesson", "fix rule design", "rule", "RSI", "lesson",
     "error 500 test", "skipping", "backtest", "loss", "luật", "market"}

\* filler runs that put a text on either side of the 20, 30, 200 and 500
\* character thresholds
FillChoices == {0, 20, 200, 247, 500}

RECURSIVE Join(_)
Join(ws) ==
    IF ws = <<>> THEN ""
    ELSE IF Len(ws) = 1 THEN ws[1]
    ELSE ws[1] \o " " \o Join(Tail(ws))

WordSeqs == UNION {[1..n -> Phrases] : n \in 0..MaxWords}

Texts == {[head |-> Join(ws), fill |-> f, tail |-> ""] : ws \in WordSeqs, f \in FillChoices}

NoReport ==
    [totalProcessed |-> 0, totalKept |-> 0, totalDiscarded |-> 0,
     byAgent |-> <<>>, snapshotCreated |-> "undefined"]

NoConfig ==
    [agents |-> <<>>, minQualityScore |-> 0, maxOutputPerAgent |-> 0,
     categories |-> {}, dryRun |-> TRUE, createSnapshot |-> FALSE,
     forceRuleOnly |-> TRUE]

\* the destination collection before it is created
NoCollection == [exists |-> FALSE, points |-> {}]

\* lastRun when distill has not run before
NoLastRun == [runs |-> 0, golden |-> NoCollection]

\* the variables an operation has not touched yet
Idle ==
    /\ config = NoConfig
    /\ llmScorer = NoScorer
    /\ agentIdx = 0
    /\ filtered = <<>>
    /\ batchI = 0
    /\ results = <<>>
    /\ scored = <<>>
    /\ lastResp = NoResponse
    /\ selectedByAgent = <<>>
    /\ report = NoReport
    /\ golden = [exists |-> FALSE, points |-> {}]
    /\ calls = <<>>
    /\ env = [llmScoringEnabled |-> FALSE, llmBatchSize |-> 1]
    /\ outcome = Pending
    /\ clock = 0
    /\ stamps = [id \in Untimed |-> 0]
    /\ lastRun = NoLastRun

(***************************************************************************)
(* The scorer and the pre-filter on one memory                             *)
(***************************************************************************)
InitScore ==
    /\ pc = "input"
    /\ \E a \in Agents, t \in Texts : fnIn = Memory("m", a, t)
    /\ fnOut = null
    /\ store = <<>>
    /\ Idle

ScoreOne ==
    /\ pc = "input"
    /\ pc' = "scored"
    /\ fnOut' = scoreMemory(fnIn)
    /\ UNCHANGED <<fnIn, store, config, llmScorer, agentIdx, filtered, batchI,
                   results, scored, lastResp, selectedByAgent, report, golden,
                   calls, env, outcome, clock, stamps, lastRun>>

FilterOne ==
    /\ pc = "input"
    /\ pc' = "prefiltered"
    /\ fnOut' = preFilter(fnIn)
    /\ UNCHANGED <<fnIn, store, config, llmScorer, agentIdx, filtered, batchI,
                   results, scored, lastResp, selectedByAgent, report, golden,
                   calls, env, outcome, clock, stamps, lastRun>>

NextScore == ScoreOne \/ FilterOne

SpecScore == InitScore /\ [][NextScore]_vars

(***************************************************************************)
(* C1  (as stated) whenever the tags scoreMemory collects include "rule",  *)
(* the returned category is system_rule, whatever the group and the other  *)
(* signals of the text.                                                    *)
(***************************************************************************)
C1_RuleTagAlwaysSystemRule ==
    (pc = "scored" /\ SeqIncludes(fnOut.tags, "rule"))
        => fnOut.category = "system_rule"

(***************************************************************************)
(* C1  (amended) whenever the tags scoreMemory collects include "rule" and *)
(* the final score is at least 30, the returned category is system_rule,   *)
(* whatever the group; below 30 the noise floor wins and it is noise.      *)
(***************************************************************************)
C1_RuleTagSystemRuleAboveFloor ==
    (pc = "scored" /\ SeqIncludes(fnOut.tags, "rule"))
        => fnOut.category =
               (IF fnOut.qualityScore >= 30 THEN "system_rule" ELSE "noise")

\* a trader memory with both the win and the rule tag: the group table says
\* trading_win_pattern, the override makes it system_rule
C1_Witness ==
    /\ pc = "scored"
    /\ fnIn.source_agent = "trader"
    /\ SeqIncludes(fnOut.tags, "win")
    /\ SeqIncludes(fnOut.tags, "rule")
    /\ fnOut.category = "system_rule"

(***************************************************************************)
(* The selection chain on one scored list                                  *)
(***************************************************************************)
MaxScored == 7

\* (score, category) of the scored records a list is drawn from
ScoredKinds ==
    { [qualityScore |-> 70, category |-> "market_insight",
       text |-> [head |-> "market", fill |-> 200, tail |-> ""]],
      [qualityScore |-> 80, category |-> "market_insight",
       text |-> Txt("market rsi")],
      [qualityScore |-> 90, category |-> "noise",
       text |-> Txt("skipping") ] }

Thresholds == {0, 80}

CapChoices == {0, 1, PreviewSize, PreviewSize + 1}

CategoryChoices == {{"market_insight"}, {"market_insight", "noise"}, {"noise"}}

ScoredOf(kinds) ==
    [i \in 1..Len(kinds) |->
        [id |-> i, text |-> kinds[i].text, source_agent |-> "trader",
         qualityScore |-> kinds[i].qualityScore, category |-> kinds[i].category]]

SelectConfig(minScore, cap, cats) ==
    [NoConfig EXCEPT !.minQualityScore = minScore, !.maxOutputPerAgent = cap,
                     !.categories = cats]

InitSelect ==
    /\ pc = "input"
    /\ \E n \in 0..MaxScored : \E kinds \in [1..n -> ScoredKinds] :
       \E t \in Thresholds, cap \in CapChoices, cats \in CategoryChoices :
          fnIn = [scored |-> ScoredOf(kinds), config |-> SelectConfig(t, cap, cats)]
    /\ fnOut = null
    /\ store = <<>>
    /\ Idle

\* one group's selection and preview
SelectOne ==
    /\ pc = "input"
    /\ pc' = "selected"
    /\ LET top == SelectTop(fnIn.scored, fnIn.config)
       IN  fnOut' = [top |-> top, topMemories |-> TopMemories(top), again |-> <<>>]
    /\ UNCHANGED <<fnIn, store, config, llmScorer, agentIdx, filtered, batchI,
                   results, scored, lastResp, selectedByAgent, report, golden,
                   calls, env, outcome, clock, stamps, lastRun>>

\* the same list selected again under a threshold that is not lower
SelectAgain ==
    /\ pc = "selected"
    /\ pc' = "reselected"
    /\ \E t2 \in Thresholds :
          /\ t2 >= fnIn.config.minQualityScore
          /\ fnOut' = [fnOut EXCEPT !.again =
                          SelectTop(fnIn.scored,
                                    [fnIn.config EXCEPT !.minQualityScore = t2])]
    /\ UNCHANGED <<fnIn, store, config, llmScorer, agentIdx, filtered, batchI,
                   results, scored, lastResp, selectedByAgent, report, golden,
                   calls, env, outcome, clock, stamps, lastRun>>

NextSelect == SelectOne \/ SelectAgain

SpecSelect == InitSelect /\ [][NextSelect]_vars

Ids(s) == {s[i].id : i \in 1..Len(s)}

(***************************************************************************)
(* C7  Monotonic retention: for one scored list, eligible-category set and *)
(* cap, the records kept under a threshold T2 >= T1 are a subset of the    *)
(* records kept under T1.                                                  *)
(***************************************************************************)
C7_MonotonicRetention ==
    pc = "reselected" => Ids(fnOut.again) \subseteq Ids(fnOut.top)

\* the higher threshold removed a record, and the cap cut both selections
C7_Witness ==
    /\ pc = "reselected"
    /\ Ids(fnOut.again) # Ids(fnOut.top)
    /\ fnOut.again # <<>>
    /\ Len(fnOut.top) = fnIn.config.maxOutputPerAgent
    /\ Len(Retained(fnIn.scored, fnIn.config)) > fnIn.config.maxOutputPerAgent

\* positions of the records of a scored list that pass the three filters
EligiblePositions(list, cfg) ==
    {i \in 1..Len(list) :
        /\ list[i].qualityScore >= cfg.minQualityScore
        /\ list[i].category # "noise"
        /\ list[i].category \in cfg.categories}

\* a ranks before b: higher score, or equal score and earlier arrival
\* (a list of InitSelect numbers its records in arrival order)
RanksBefore(a, b) ==
    \/ a.qualityScore > b.qualityScore
    \/ a.qualityScore = b.qualityScore /\ a.id < b.id

(***************************************************************************)
(* C8  The kept list of a group is the first min(n, max-per-group) of its  *)
(* n eligible records ranked by score descending, ties in arrival order:   *)
(* it holds only eligible records, each once, in rank order, and every     *)
(* dropped eligible record ranks behind every kept one; the preview is the *)
(* first min(5, kept) records of the kept list, in that order.             *)
(***************************************************************************)
C8_TopIsRankedPrefix ==
    pc = "selected" =>
        LET list   == fnIn.scored
            elig   == EligiblePositions(list, fnIn.config)
            top    == fnOut.top
            prev   == fnOut.topMemories
        IN  /\ Len(top) = Min(Cardinality(elig), fnIn.config.maxOutputPerAgent)
            /\ \A i \in 1..Len(top) : top[i].id \in elig /\ top[i] = list[top[i].id]
            /\ \A i, j \in 1..Len(top) : i < j => RanksBefore(top[i], top[j])
            /\ \A d \in elig : d \notin Ids(top) =>
                   \A i \in 1..Len(top) :
                       /\ list[d].qualityScore <= top[i].qualityScore
                       /\ RanksBefore(top[i], list[d])
            /\ Len(prev) = Min(PreviewSize, Len(top))
            /\ \A i \in 1..Len(prev) :
                   /\ prev[i].score = top[i].qualityScore
                   /\ prev[i].category = top[i].category
                   /\ prev[i].text = truncate(top[i].text, PreviewTextLength)

\* seven eligible records under a cap of six: one is dropped, it ties with a
\* kept one, and the preview is shorter than the kept list
C8_Witness ==
    /\ pc = "selected"
    /\ Cardinality(EligiblePositions(fnIn.scored, fnIn.config)) > Len(fnOut.top)
    /\ Len(fnOut.top) > PreviewSize
    /\ Len(fnOut.topMemories) = PreviewSize
    /\ \E d \in EligiblePositions(fnIn.scored, fnIn.config) :
          /\ d \notin Ids(fnOut.top)
          /\ \E i \in 1..Len(fnOut.top) :
                fnOut.top[i].qualityScore = fnIn.scored[d].qualityScore
    /\ \E i \in 1..(Len(fnOut.top) - 1) : fnOut.top[i].id > fnOut.top[i + 1].id

(***************************************************************************)
(* distill                                                                 *)
(***************************************************************************)
MaxStore == 2

\* the points of a set of pool positions, in scroll order
RECURSIVE PointsAt(_, _)
PointsAt(positions, k) ==
    IF k > Len(PoolOrder) THEN <<>>
    ELSE (IF k \in positions THEN <<PoolOrder[k]>> ELSE <<>>) \o PointsAt(positions, k + 1)

Stores ==
    {PointsAt(positions, 1) :
        positions \in {ps \in SUBSET (1..Len(PoolOrder)) : Cardinality(ps) <= MaxStore}}

AgentLists ==
    {<<>>, <<"trader">>, <<"trader", "assistant">>, <<"trader", "trader">>}

MinScores == {0, 60}
Caps == {0, 1, 2}
EligibleSets == {DEFAULT_CATEGORIES, ALLOWED_CATEGORIES}
BatchSizes == {0, 2}

Configs ==
    [agents : AgentLists, minQualityScore : MinScores, maxOutputPerAgent : Caps,
     categories : EligibleSets, dryRun : BOOLEAN, createSnapshot : BOOLEAN,
     forceRuleOnly : BOOLEAN]

\* process.env: LLM_SCORING_ENABLED === 'true', LLM_BATCH_SIZE
Envs == [llmScoringEnabled : BOOLEAN, llmBatchSize : BatchSizes]

Item(index, score, category, reasoning) ==
    [index |-> index, score |-> score, category |-> category, reasoning |-> reasoning]

\* the responses of the LLM service to one chunk request
Responses ==
    { [kind |-> "transport", items |-> <<>>],
      [kind |-> "status",    items |-> <<>>],
      [kind |-> "empty",     items |-> <<>>],
      [kind |-> "malformed", items |-> <<>>],
      [kind |-> "nonarray",  items |-> <<>>],
      [kind |-> "array",     items |-> <<>>],
      [kind |-> "array",     items |-> <<Item(Num(0), Tenths(855), "market_insight", "why")>>],
      [kind |-> "array",     items |-> <<Item(Num(0), NaN, "market_insight", "why")>>],
      [kind |-> "array",     items |->
          <<Item(Num(1), Num(150), "bogus", "why"),
            Item(Num(0), Num(-5), "system_rule", "LLM scoring"),
            Item(Num(0), Num(90), "market_insight", "why")>>],
      [kind |-> "array",     items |->
          <<Item(Num(7), Num(80), "market_insight", "why"),
            Item(NaN, Num(80), "market_insight", "why"),
            Item(Num(0), NaN, "market_insight", "why"),
            Item(Num(1), Num(70), "noise", "why")>>] }

Init ==
    /\ pc = "idle"
    /\ fnIn = null
    /\ fnOut = null
    /\ store \in Stores
    /\ config = NoConfig
    /\ llmScorer = NoScorer
    /\ agentIdx = 0
    /\ filtered = <<>>
    /\ batchI = 0
    /\ results = <<>>
    /\ scored = <<>>
    /\ lastResp = NoResponse
    /\ selectedByAgent = <<>>
    /\ report = NoReport
    /\ golden = [exists |-> FALSE, points |-> {}]
    /\ calls = <<>>
    /\ env \in Envs
    /\ outcome = Pending
    /\ clock = 0
    /\ stamps = [id \in Untimed |-> 0]
    /\ lastRun = NoLastRun

\* getAllMemories(agent): the points whose source_agent matches, in scroll order
getAllMemories(agent) ==
    LET Test(m) == m.source_agent = agent
    IN  SelectSeq(store, Test)

\* obj[key] = value on an object whose keys are kept in insertion order
SetKey(obj, key, value) ==
    IF \E i \in 1..Len(obj) : obj[i].key = key
    THEN [i \in 1..Len(obj) |->
             IF obj[i].key = key THEN [key |-> key, value |-> value] ELSE obj[i]]
    ELSE Append(obj, [key |-> key, value |-> value])

\* Object.values(obj).flat()
RECURSIVE FlatValues(_)
FlatValues(obj) ==
    IF obj = <<>> THEN <<>> ELSE Head(obj).value \o FlatValues(Tail(obj))

\* lines 56-66: the totals and the group's entry of the report
AddGroup(rep, agent, flt, top) ==
    [rep EXCEPT
        !.totalProcessed = @ + Len(flt),
        !.totalKept = @ + Len(top),
        !.byAgent = SetKey(@, agent,
                        [processed |-> Len(flt), kept |-> Len(top),
                         topMemories |-> TopMemories(top)])]

\* mutant: the discarded count is computed from the kept count alone
SetDiscarded_Wrong(rep) ==
    [rep EXCEPT !.totalDiscarded = rep.totalKept]

\* line 69
SetDiscarded(rep) ==
    [rep EXCEPT !.totalDiscarded = rep.totalProcessed - rep.totalKept]

\* one entry of calls: an operation on the store or the LLM service
Call(op, at) == [op |-> op, at |-> at]

\* mutant: the persistence does not look at the dry-run flag
AfterLoop_IgnoresDryRun(cfg) == "ensure"

\* line 82: the promise is fulfilled with the report when distill returns
Settled(p, rep) ==
    IF p = "done" THEN [kind |-> "report", report |-> rep] ELSE Pending

\* mutant: the error of a store operation is swallowed and the report so far
\* is returned
Propagate_Swallowed(op) ==
    /\ pc' = "done"
    /\ outcome' = [kind |-> "report", report |-> report]

\* an awaited store operation rejects: nothing in distill catches the error,
\* so the promise of distill is rejected with it
Propagate(op) ==
    /\ pc' = "failed"
    /\ outcome' = [kind |-> "error", op |-> op]

\* where distill goes after the for loop
AfterLoop(cfg) == IF cfg.dryRun THEN "done" ELSE "ensure"

\* lines 47-69 for the group at agentIdx, whose scored list is known
GroupDone(flt, scoredList) ==
    LET agent == config.agents[agentIdx]
        top   == SelectTop(scoredList, config)
        rep   == AddGroup(report, agent, flt, top)
        last  == agentIdx = Len(config.agents)
    IN  /\ scored' = scoredList
        /\ selectedByAgent' = SetKey(selectedByAgent, agent, top)
        /\ report' = IF last THEN SetDiscarded(rep) ELSE rep
        /\ agentIdx' = IF last THEN agentIdx ELSE agentIdx + 1
        /\ pc' = IF last THEN AfterLoop(config) ELSE "fetch"

\* mutant: the scorer is chosen from the environment alone
ChooseScorer_IgnoresForceRuleOnly(cfg, e) ==
    IF e.llmScoringEnabled
    THEN [present |-> TRUE, batchSize |-> Max(1, e.llmBatchSize)]
    ELSE NoScorer

\* lines 24-31: llmEnabled and the LLMScorerService, whose constructor keeps
\* Math.max(1, batchSize)
ChooseScorer(cfg, e) ==
    IF e.llmScoringEnabled /\ ~cfg.forceRuleOnly
    THEN [present |-> TRUE, batchSize |-> Max(1, e.llmBatchSize)]
    ELSE NoScorer

\* lines 10-37: the report, the scorer, and the first fetch request
Begin(cfg) ==
    /\ config' = cfg
    /\ llmScorer' = ChooseScorer(cfg, env)
    /\ IF cfg.agents = <<>>
       THEN /\ pc' = AfterLoop(cfg)
            /\ agentIdx' = 0
       ELSE /\ pc' = "fetch"
            /\ agentIdx' = 1

\* distill(config) is called
Start ==
    /\ pc = "idle"
    /\ \E cfg \in Configs : Begin(cfg)
    /\ report' = SetDiscarded(NoReport)
    /\ selectedByAgent' = <<>>
    /\ calls' = <<>>
    /\ UNCHANGED <<fnIn, fnOut, store, filtered, batchI, results, scored,
                   lastResp, golden, env, clock, stamps, lastRun>>
    /\ outcome' = Settled(pc', report')

\* buildReport lines 86-106: the configuration it passes to distill
buildReportConfig(agents) ==
    [agents |-> agents, minQualityScore |-> 60, maxOutputPerAgent |-> 5,
     categories |-> DEFAULT_CATEGORIES, dryRun |-> TRUE, createSnapshot |-> FALSE,
     forceRuleOnly |-> TRUE]

\* buildReport(agents) is called
BuildReport ==
    /\ pc = "idle"
    /\ \E agents \in AgentLists : Begin(buildReportConfig(agents))
    /\ report' = SetDiscarded(NoReport)
    /\ selectedByAgent' = <<>>
    /\ calls' = <<>>
    /\ UNCHANGED <<fnIn, fnOut, store, filtered, batchI, results, scored,
                   lastResp, golden, env, clock, stamps, lastRun>>
    /\ outcome' = Settled(pc', report')

\* lines 38-45: the fetch resolves, the pre-filter runs, and the group is
\* scored by the heuristic scorer, or scoreBatch sends its first request
FetchGroup ==
    /\ pc = "fetch"
    /\ LET memories == getAllMemories(config.agents[agentIdx])
           flt      == SelectSeq(memories, Accepted)
           untimed  == {memories[i].id : i \in 1..Len(memories)} \cap Untimed
       IN  /\ filtered' = flt
           /\ IF untimed = {}
              THEN UNCHANGED <<clock, stamps>>
              ELSE \E t \in clock..MaxClock :
                      /\ clock' = t
                      /\ stamps' = [id \in Untimed |->
                                       IF id \in untimed THEN t ELSE stamps[id]]
           /\ IF ~llmScorer.present
              THEN /\ GroupDone(flt, [i \in 1..Len(flt) |-> Heuristic(flt[i])])
                   /\ UNCHANGED <<batchI, results>>
              ELSE IF flt = <<>>
              THEN /\ GroupDone(flt, <<>>)
                   /\ batchI' = 0
                   /\ results' = <<>>
              ELSE /\ pc' = "llm"
                   /\ batchI' = 0
                   /\ results' = <<>>
                   /\ UNCHANGED <<scored, selectedByAgent, report, agentIdx>>
    /\ lastResp' = NoResponse
    /\ calls' = calls \o <<Call("getAllMemories", agentIdx)>> \o
                (IF llmScorer.present /\ filtered' # <<>>
                 THEN <<Call("chat/completions", 0)>> ELSE <<>>)
    /\ UNCHANGED <<fnIn, fnOut, store, config, llmScorer, golden, env,
                   lastRun>>
    /\ outcome' = Settled(pc', report')

\* mutant: the pause is taken after the last chunk too
MoreChunks_Inclusive(i, batchSize, n) == i + batchSize <= n

\* scoreBatch line 247: chunks are left after the one at i
MoreChunks(i, batchSize, n) == i + batchSize < n

\* scoreBatch lines 240-249: the response to the chunk at batchI arrives
ScoreChunk ==
    /\ pc = "llm"
    /\ \E resp \in Responses :
          LET batch == Chunk(filtered, batchI, llmScorer.batchSize)
              res   == results \o scoreSingleBatch(batch, resp)
          IN  /\ lastResp' = resp
              /\ results' = res
              /\ IF MoreChunks(batchI, llmScorer.batchSize, Len(filtered))
                 THEN /\ pc' = "pause"
                      /\ UNCHANGED <<scored, selectedByAgent, report,
                                     agentIdx>>
                 ELSE GroupDone(filtered, res)
    /\ calls' = IF MoreChunks(batchI, llmScorer.batchSize, Len(filtered))
                THEN Append(calls, Call("setTimeout", batchI)) ELSE calls
    /\ UNCHANGED <<fnIn, fnOut, store, config, llmScorer, filtered, batchI,
                   golden, env, clock, stamps, lastRun>>
    /\ outcome' = Settled(pc', report')

\* scoreBatch line 248 and the loop increment: the pacing timer fires and the
\* next chunk request is sent
Pause ==
    /\ pc = "pause"
    /\ pc' = "llm"
    /\ batchI' = batchI + llmScorer.batchSize
    /\ lastResp' = NoResponse
    /\ calls' = Append(calls, Call("chat/completions", batchI + llmScorer.batchSize))
    /\ UNCHANGED <<fnIn, fnOut, store, config, llmScorer, agentIdx, filtered,
                   results, scored, selectedByAgent, report, golden, env,
                   outcome, clock, stamps, lastRun>>

\* createGoldenCollection
EnsureCollection ==
    /\ pc = "ensure"
    /\ pc' = "upsert"
    /\ golden' = [golden EXCEPT !.exists = TRUE]
    /\ calls' = Append(calls, Call("createGoldenCollection", 0))
    /\ UNCHANGED <<fnIn, fnOut, store, config, llmScorer, agentIdx, filtered,
                   batchI, results, scored, lastResp, selectedByAgent, report,
                   env, outcome, clock, stamps, lastRun>>

\* upsertGoldenMemories lines 93-110: the point written for a memory
PointOf(memory) ==
    [id |-> memory.id, payload |-> memory,
     timestamp |-> IF memory.id \in Untimed THEN stamps[memory.id]
                   ELSE PayloadTimestamp]

PointsOf(memories) == [i \in 1..Len(memories) |-> PointOf(memories[i])]

\* upsertGoldenMemories: a point replaces the point of the same id
Upserted(points, memories) ==
    {p \in points : p.id \notin {memories[i].id : i \in 1..Len(memories)}}
    \cup {memories[i] : i \in {k \in 1..Len(memories) :
                                 \A j \in (k + 1)..Len(memories) :
                                     memories[j].id # memories[k].id}}

Upsert ==
    /\ pc = "upsert"
    /\ pc' = IF config.createSnapshot THEN "snapshot" ELSE "done"
    /\ golden' = [golden EXCEPT !.points = Upserted(@, PointsOf(FlatValues(selectedByAgent)))]
    /\ calls' = Append(calls, Call("upsertGoldenMemories", Len(FlatValues(selectedByAgent))))
    /\ UNCHANGED <<fnIn, fnOut, store, config, llmScorer, agentIdx, filtered,
                   batchI, results, scored, lastResp, selectedByAgent, report,
                   env, clock, stamps, lastRun>>
    /\ outcome' = Settled(pc', report')

\* createSnapshot
Snapshot ==
    /\ pc = "snapshot"
    /\ pc' = "done"
    /\ report' = [report EXCEPT !.snapshotCreated = "snapshots/golden"]
    /\ calls' = Append(calls, Call("createSnapshot", 0))
    /\ UNCHANGED <<fnIn, fnOut, store, config, llmScorer, agentIdx, filtered,
                   batchI, results, scored, lastResp, selectedByAgent, golden,
                   env, clock, stamps, lastRun>>
    /\ outcome' = Settled(pc', report')

\* getAllMemories rejects (a scroll request fails)
FetchFails ==
    /\ pc = "fetch"
    /\ Propagate("getAllMemories")
    /\ calls' = Append(calls, Call("getAllMemories", agentIdx))
    /\ UNCHANGED <<fnIn, fnOut, store, config, llmScorer, agentIdx, filtered,
                   batchI, results, scored, lastResp, selectedByAgent, report,
                   golden, env, clock, stamps, lastRun>>

\* createGoldenCollection rejects; whether the collection was created by
\* then is not known to the caller
EnsureFails ==
    /\ pc = "ensure"
    /\ Propagate("createGoldenCollection")
    /\ calls' = Append(calls, Call("createGoldenCollection", 0))
    /\ \E created \in BOOLEAN :
          golden' = [golden EXCEPT !.exists = @ \/ created]
    /\ UNCHANGED <<fnIn, fnOut, store, config, llmScorer, agentIdx, filtered,
                   batchI, results, scored, lastResp, selectedByAgent, report,
                   env, clock, stamps, lastRun>>

\* upsertGoldenMemories rejects (it sends requests only for a selection that
\* is not empty); whether the failed request was applied is not known
UpsertFails ==
    /\ pc = "upsert"
    /\ FlatValues(selectedByAgent) # <<>>
    /\ Propagate("upsertGoldenMemories")
    /\ calls' = Append(calls, Call("upsertGoldenMemories", Len(FlatValues(selectedByAgent))))
    /\ \E applied \in BOOLEAN :
          golden' = IF applied
                    THEN [golden EXCEPT !.points =
                             Upserted(@, PointsOf(FlatValues(selectedByAgent)))]
                    ELSE golden
    /\ UNCHANGED <<fnIn, fnOut, store, config, llmScorer, agentIdx, filtered,
                   batchI, results, scored, lastResp, selectedByAgent, report,
                   env, clock, stamps, lastRun>>

\* createSnapshot rejects (the request fails, the result has no name, or
\* mkdir fails)
SnapshotFails ==
    /\ pc = "snapshot"
    /\ Propagate("createSnapshot")
    /\ calls' = Append(calls, Call("createSnapshot", 0))
    /\ UNCHANGED <<fnIn, fnOut, store, config, llmScorer, agentIdx, filtered,
                   batchI, results, scored, lastResp, selectedByAgent, report,
                   golden, env, clock, stamps, lastRun>>

Next ==
    \/ Start
    \/ BuildReport
    \/ FetchGroup
    \/ ScoreChunk
    \/ Pause
    \/ EnsureCollection
    \/ Upsert
    \/ Snapshot
    \/ FetchFails
    \/ EnsureFails
    \/ UpsertFails
    \/ SnapshotFails

Spec == Init /\ [][Next]_vars

\* distill has returned its report
Returned == pc = "done"

\* the values of selectedByAgent
Selected == UNION {Range(selectedByAgent[i].value) : i \in 1..Len(selectedByAgent)}

(***************************************************************************)
(* C2  Noise floor: a record the heuristic scorer gave a final score below *)
(* 30 has category noise, and no record of category noise is in the kept   *)
(* set of distill, whatever the minimum score (0 included) and the         *)
(* eligible-category set (noise included).                                 *)
(***************************************************************************)
C2_NoiseFloor ==
    /\ \A m \in Range(scored) \cup Range(results) :
           (m.scoringMethod = "rule" /\ m.qualityScore < 30) => m.category = "noise"
    /\ \A m \in Selected : m.category # "noise"

\* threshold 0 and noise eligible: the record scored below 30 is noise, was
\* scored with the other record of its group, and only the other one is kept
C2_Witness ==
    /\ Returned
    /\ config.minQualityScore = 0
    /\ "noise" \in config.categories
    /\ config.maxOutputPerAgent = 2
    /\ \E m \in Range(scored) :
          /\ m.scoringMethod = "rule"
          /\ m.qualityScore < 30
          /\ SeqIncludes(m.tags, "rule")
          /\ m.category = "noise"
          /\ m \notin Selected
    /\ \E m \in Range(scored) : m \in Selected

(***************************************************************************)
(* C3  Every ScoredRecord of a run, from the heuristic scorer, from a      *)
(* matched LLM entry or from the LLM scorer's fallback, has a quality      *)
(* score in 0..100 and a category of the closed ten-value set.             *)
(***************************************************************************)
C3_ScoreAndCategoryInRange ==
    \A m \in Range(scored) \cup Range(results) \cup Selected :
        /\ m.qualityScore \in 0..100
        /\ m.category \in ALLOWED_CATEGORIES

\* one chunk gave an LLM record clamped to 100 whose category was not in the
\* closed set and an LLM record clamped to 0
C3_Witness ==
    /\ lastResp.kind = "array"
    /\ \E k \in 1..Len(lastResp.items) :
          /\ lastResp.items[k].score = Num(150)
          /\ lastResp.items[k].category \notin ALLOWED_CATEGORIES
    /\ \E m \in Range(results) :
          m.scoringMethod = "llm" /\ m.qualityScore = 100 /\ m.category = "noise"
    /\ \E m \in Range(results) : m.scoringMethod = "llm" /\ m.qualityScore = 0

(***************************************************************************)
(* C4  Cap invariant: for every group of the report, the kept count is at  *)
(* most the configured max-per-group (an integer >= 0).                    *)
(***************************************************************************)
C4_KeptWithinCap ==
    \A i \in 1..Len(report.byAgent) :
        report.byAgent[i].value.kept <= config.maxOutputPerAgent

\* two records of a group pass the filters and the cap of one drops one
C4_Witness ==
    /\ config.maxOutputPerAgent = 1
    /\ Len(Retained(scored, config)) = 2
    /\ \E i \in 1..Len(report.byAgent) :
          /\ report.byAgent[i].key = config.agents[agentIdx]
          /\ report.byAgent[i].value.kept = 1
          /\ report.byAgent[i].value.processed = 2

RECURSIVE SumOf(_, _)
SumOf(entries, field) ==
    IF entries = <<>> THEN 0
    ELSE Head(entries).value[field] + SumOf(Tail(entries), field)

(***************************************************************************)
(* C5  In the report distill returns, for every list of group labels       *)
(* (lists that repeat a label included), totalProcessed is the sum of the  *)
(* per-group processed counts of the breakdown and totalKept is the sum of *)
(* the per-group kept counts.                                              *)
(***************************************************************************)
C5_TotalsAreSumsOfBreakdown ==
    Returned =>
        /\ report.totalProcessed = SumOf(report.byAgent, "processed")
        /\ report.totalKept = SumOf(report.byAgent, "kept")

(***************************************************************************)
(* C6  In every report distill returns, totalDiscarded is totalProcessed   *)
(* minus totalKept, and it is not negative.                                *)
(***************************************************************************)
C6_DiscardedIsDifference ==
    Returned =>
        /\ report.totalDiscarded = report.totalProcessed - report.totalKept
        /\ report.totalDiscarded >= 0

\* a returned report with kept and discarded records
C6_Witness ==
    /\ Returned
    /\ report.totalKept > 0
    /\ report.totalDiscarded > 0
    /\ report.totalDiscarded # report.totalKept

\* what the catch block returns for one memory
IsFallbackOf(r, memory) ==
    LET h == Heuristic(memory)
    IN  /\ r.id = memory.id
        /\ r.scoringMethod = "rule"
        /\ r.qualityScore = h.qualityScore
        /\ r.category = h.category
        /\ r.tags = Append(h.tags, "llm-fallback")

(***************************************************************************)
(* C9  When the LLM call for a chunk fails (transport error, non-OK        *)
(* status, empty content, malformed JSON, non-array top level), the chunk  *)
(* adds to the results one record per memory of the chunk, with scoring    *)
(* method rule, the heuristic score and category, and the tag              *)
(* "llm-fallback" appended; the results of the earlier chunks stay as they *)
(* were, and scoreBatch and distill go on: to the pacing pause, the next   *)
(* group, the persistence or the return.  Every chunk, after a failure or  *)
(* not, is scored from its own memories and its own response alone.        *)
(***************************************************************************)
C9_FailedChunkFallsBack ==
    [][ /\ pc = "llm" =>
            results' = results \o scoreSingleBatch(
                           Chunk(filtered, batchI, llmScorer.batchSize), lastResp')
        /\ (pc = "llm" /\ Throws(lastResp')) =>
            LET batch == Chunk(filtered, batchI, llmScorer.batchSize)
            IN  /\ Len(results') = Len(results) + Len(batch)
                /\ SubSeq(results', 1, Len(results)) = results
                /\ \A k \in 1..Len(batch) :
                       IsFallbackOf(results'[Len(results) + k], batch[k])
                /\ pc' \in {"pause", "fetch", "ensure", "done"}
                /\ (pc' # "pause") => scored' = results' ]_vars

\* the second chunk of a group failed, the first one was scored by the LLM,
\* and the run has returned
C9_Witness ==
    /\ Returned
    /\ Throws(lastResp)
    /\ batchI > 0
    /\ Len(results) = 2
    /\ results[1].scoringMethod = "llm"
    /\ results[2].scoringMethod = "rule"
    /\ SeqIncludes(results[2].tags, "llm-fallback")

\* the identifiers of a list, in order
IdsInOrder(s) == [i \in 1..Len(s) |-> s[i].id]

(***************************************************************************)
(* C10  scoreBatch returns exactly one ScoredRecord per input record, in   *)
(* input order (the i-th output has the identifier of the i-th input), for *)
(* every batch size >= 1 and every combination of chunk successes and      *)
(* failures and of missing, duplicated or out-of-range indices; while it   *)
(* runs, its results are the records of the chunks done so far.            *)
(***************************************************************************)
C10_OneResultPerInputInOrder ==
    llmScorer.present =>
        /\ pc = "llm" =>
              IdsInOrder(results) = IdsInOrder(SubSeq(filtered, 1, batchI))
        /\ pc = "pause" =>
              IdsInOrder(results) =
                  IdsInOrder(SubSeq(filtered, 1, batchI + llmScorer.batchSize))
        /\ pc \in {"fetch", "ensure", "upsert", "snapshot", "done"} =>
              /\ IdsInOrder(results) = IdsInOrder(filtered)
              /\ agentIdx > 0 => scored = results

\* scoreBatch returned two records from two chunks, the first with a
\* response whose indices matched nothing, the second with a response that
\* repeats index 0
C10_Witness ==
    /\ llmScorer.present
    /\ llmScorer.batchSize = 1
    /\ pc = "fetch"
    /\ Len(filtered) = 2
    /\ IdsInOrder(results) = IdsInOrder(filtered)
    /\ SeqIncludes(results[1].tags, "llm-fallback")
    /\ results[2].scoringMethod = "llm"
    /\ lastResp.kind = "array"
    /\ Cardinality({k \in 1..Len(lastResp.items) : lastResp.items[k].index = Num(0)}) = 2

\* the positions of calls at which the operation op was started
CallsOf(op) == {i \in 1..Len(calls) : calls[i].op = op}

PersistOps == {"createGoldenCollection", "upsertGoldenMemories", "createSnapshot"}

(***************************************************************************)
(* C11  The store side effects of a run in which no store operation fails *)
(* are fixed by its flags (a run that fails makes a prefix of them).  With *)
(* dry-run true there is no ensure-collection, upsert or snapshot call,    *)
(* the destination is untouched and the report has no snapshot location.   *)
(* With dry-run false the returned run has made one ensure-collection call *)
(* and, right after it, one upsert call of the selected records.  A        *)
(* snapshot call is made only when dry-run is false and the snapshot flag  *)
(* is true, right after the upsert call has completed, and the report has  *)
(* a snapshot location exactly when that call was made.                    *)
(***************************************************************************)
C11_SideEffectsFixedByFlags ==
    /\ config.dryRun =>
          /\ \A i \in 1..Len(calls) : calls[i].op \notin PersistOps
          /\ golden = [exists |-> FALSE, points |-> {}]
    /\ \A i \in CallsOf("upsertGoldenMemories") :
          /\ i > 1
          /\ calls[i - 1].op = "createGoldenCollection"
          /\ golden.exists
          /\ calls[i].at = Len(FlatValues(selectedByAgent))
          /\ outcome.kind # "error" => \A m \in Selected : PointOf(m) \in golden.points
    /\ \A i \in CallsOf("createSnapshot") :
          /\ ~config.dryRun /\ config.createSnapshot
          /\ i > 1
          /\ calls[i - 1].op = "upsertGoldenMemories"
    /\ (report.snapshotCreated # "undefined") => (CallsOf("createSnapshot") # {})
    /\ (CallsOf("createSnapshot") # {} /\ outcome.kind # "error") =>
          report.snapshotCreated # "undefined"
    /\ (Returned /\ ~config.dryRun) =>
          /\ Cardinality(CallsOf("createGoldenCollection")) = 1
          /\ Cardinality(CallsOf("upsertGoldenMemories")) = 1
          /\ Cardinality(CallsOf("createSnapshot")) =
                 (IF config.createSnapshot THEN 1 ELSE 0)

\* a returned run that ensured the collection, wrote two records and took a
\* snapshot
C11_Witness ==
    /\ Returned
    /\ ~config.dryRun
    /\ config.createSnapshot
    /\ Len(calls) >= 3
    /\ calls[Len(calls) - 2].op = "createGoldenCollection"
    /\ calls[Len(calls) - 1].op = "upsertGoldenMemories"
    /\ calls[Len(calls)].op = "createSnapshot"
    /\ Cardinality(golden.points) = 2
    /\ report.snapshotCreated # "undefined"

\* a record that came out of scoreBatch: scored by the LLM, or by the
\* fallback of scoreSingleBatch
FromScoreBatch(m) ==
    m.scoringMethod = "llm" \/ SeqIncludes(m.tags, "llm-fallback")

(***************************************************************************)
(* C12  The scorer is chosen once at the start of distill and used for     *)
(* every group of the run.  It is the batch LLM scorer exactly when        *)
(* LLM_SCORING_ENABLED is 'true' and force-rule-only is false, and it does *)
(* not change during the run.  With the LLM scorer every scored record of  *)
(* every group comes out of scoreBatch; without it no LLM request is       *)
(* issued and every record is scoreMemory's, so with force-rule-only true  *)
(* no request is issued whatever the environment says.                     *)
(***************************************************************************)
C12_ScorerFixedPerRun ==
    /\ [](pc # "idle" =>
            /\ llmScorer.present <=> (env.llmScoringEnabled /\ ~config.forceRuleOnly)
            /\ config.forceRuleOnly => CallsOf("chat/completions") = {}
            /\ ~llmScorer.present =>
                  /\ CallsOf("chat/completions") = {}
                  /\ \A m \in Range(scored) \cup Selected : ~FromScoreBatch(m)
            /\ llmScorer.present =>
                  \A m \in Range(scored) \cup Selected : FromScoreBatch(m))
    /\ [][pc # "idle" => llmScorer' = llmScorer]_vars
    /\ [][(llmScorer.present /\ pc = "fetch" /\ pc' # "failed" /\ filtered' # <<>>) =>
              /\ pc' = "llm"
              /\ calls'[Len(calls')].op = "chat/completions"]_vars

\* buildReport with LLM scoring enabled in the environment: two groups were
\* scored and kept records, and no request was issued
C12_Witness ==
    /\ Returned
    /\ config = buildReportConfig(<<"trader", "assistant">>)
    /\ env.llmScoringEnabled
    /\ Cardinality(CallsOf("getAllMemories")) = 2
    /\ Len(selectedByAgent) = 2
    /\ \A i \in 1..2 : selectedByAgent[i].value # <<>>
    /\ CallsOf("chat/completions") = {}

(***************************************************************************)
(* The pre-filter on one memory, and the pre-filter within distill         *)
(***************************************************************************)
\* texts around the junk words, the junk substrings and the length 20
FilterHeads ==
    {"", " ", "ok", "Test", " DONE ", "yes", "no", "nope",
     "win Skipping: a step", "win skipping a step", "NO OUTPUT", "no  output",
     "Subagent Direct Hook Test"}

FilterFills == 0..20

FilterTails == {"", " ", " No Output", "test"}

FilterTexts ==
    {Norm([head |-> h, fill |-> f, tail |-> t]) :
        h \in FilterHeads, f \in FilterFills, t \in FilterTails}

InitFilter ==
    /\ pc = "input"
    /\ \E t \in FilterTexts : fnIn = Memory("m", "trader", t)
    /\ fnOut = null
    /\ store = <<>>
    /\ Idle

SpecFilter == (InitFilter \/ Init) /\ [][FilterOne \/ Next]_vars

JunkSubstrings == {"subagent direct hook test", "skipping:", "no output"}

\* the rejection rule, on the text as stored
Rejects(text) ==
    \/ Length(trim(text)) < 20
    \/ \E j \in JunkSubstrings : includes(toLowerCase(text), j)
    \/ \E w \in JunkWords : toLowerCase(trim(text)) = Txt(w)

\* the rejection rule on the stored points
PoolRejects == [m \in Pool |-> Rejects(m.text)]

(***************************************************************************)
(* C13  preFilter rejects a record exactly when its trimmed text is        *)
(* shorter than 20 characters, or its text contains, whatever the case of  *)
(* the letters, "subagent direct hook test", "skipping:" or "no output",   *)
(* or its trimmed text is, whatever the case, one of ok, yes, no, done,    *)
(* test.  In distill a record it rejects is in no filtered list, so it is  *)
(* in no chunk sent to the LLM and in no scored list, and the processed    *)
(* count of a group is the number of records of the group it accepts.      *)
(***************************************************************************)
C13_PreFilterRejectsExactly ==
    /\ pc = "prefiltered" => (fnOut <=> ~Rejects(fnIn.text))
    /\ pc \notin {"input", "prefiltered"} =>
          /\ \A m \in Range(store) :
                PoolRejects[m] =>
                    m.id \notin {r.id : r \in Range(filtered) \cup Range(results)
                                               \cup Range(scored) \cup Selected}
          /\ \A i \in 1..Len(report.byAgent) :
                report.byAgent[i].value.processed =
                    Cardinality({m \in Range(store) :
                                    /\ m.source_agent = report.byAgent[i].key
                                    /\ ~PoolRejects[m]})

\* a group of two stored records, one rejected: one record was sent to the
\* LLM and scored, and one is counted as processed
C13_Witness ==
    /\ Returned
    /\ llmScorer.present
    /\ Len(store) = 2
    /\ \A m \in Range(store) : m.source_agent = "trader"
    /\ \E m \in Range(store) : PoolRejects[m]
    /\ Len(results) = 1
    /\ results[1].scoringMethod = "llm"
    /\ Cardinality(CallsOf("chat/completions")) = 1
    /\ report.byAgent[1].value.processed = 1

\* a step in which a store operation of the run fails
StoreFailure == FetchFails \/ EnsureFails \/ UpsertFails \/ SnapshotFails

(***************************************************************************)
(* C14  If a store operation of a run fails (the fetch of any group,       *)
(* ensure-collection, upsert or snapshot), distill ends with that error    *)
(* and returns no report, and the failing operation is the last store or   *)
(* LLM operation of the run.  The persistence starts after every group has *)
(* been fetched and scored, so a failed fetch leaves the destination       *)
(* collection unwritten by the run.                                        *)
(***************************************************************************)
C14_StoreFailureAborts ==
    /\ [][StoreFailure =>
              /\ pc' = "failed"
              /\ outcome'.kind = "error"
              /\ calls'[Len(calls')].op = outcome'.op]_vars
    /\ [][pc # "failed"]_vars
    /\ [](pc = "failed" =>
              /\ outcome.kind = "error"
              /\ calls[Len(calls)].op = outcome.op
              /\ outcome.op = "getAllMemories" =>
                    /\ golden = [exists |-> FALSE, points |-> {}]
                    /\ \A i \in 1..Len(calls) : calls[i].op \notin PersistOps)
    /\ [](outcome.kind = "report" => (pc = "done" /\ outcome.report = report))

\* the fetch of the second group failed after the first group was scored by
\* the LLM and had records to persist: nothing was written
C14_Witness ==
    /\ pc = "failed"
    /\ outcome = [kind |-> "error", op |-> "getAllMemories"]
    /\ ~config.dryRun
    /\ agentIdx = 2
    /\ CallsOf("chat/completions") # {}
    /\ FlatValues(selectedByAgent) # <<>>
    /\ golden.points = {}
    /\ ~golden.exists

(***************************************************************************)
(* distill run twice in rule-based mode                                    *)
(***************************************************************************)
InitTwice ==
    /\ Init
    /\ ~env.llmScoringEnabled

\* the caller runs distill again with the configuration of the run that has
\* returned; the source collection is as it was
DistillAgain ==
    /\ pc = "done"
    /\ lastRun.runs = 0
    /\ lastRun' = [runs |-> 1, golden |-> golden]
    /\ Begin(config)
    /\ report' = SetDiscarded(NoReport)
    /\ selectedByAgent' = <<>>
    /\ calls' = <<>>
    /\ UNCHANGED <<fnIn, fnOut, store, filtered, batchI, results, scored,
                   lastResp, golden, env, clock, stamps>>
    /\ outcome' = Settled(pc', report')

NextTwice ==
    \/ Start
    \/ FetchGroup
    \/ EnsureCollection
    \/ Upsert
    \/ Snapshot
    \/ DistillAgain

SpecTwice == InitTwice /\ [][NextTwice]_vars

(***************************************************************************)
(* C15  The golden-collection write is idempotent: after a second run of a *)
(* non-dry-run distill in rule-based mode, with the same configuration and *)
(* an unchanged source collection, the destination collection equals its   *)
(* state after the first run.                                              *)
(***************************************************************************)
C15_SecondRunLeavesDestinationEqual ==
    (Returned /\ lastRun.runs = 1 /\ ~config.dryRun /\ ~llmScorer.present) =>
        golden = lastRun.golden

\* the fixed delta of the keyword group a tag stands for
TagDelta(tag) ==
    CASE tag = "win"          -> 15
      [] tag = "pattern"      -> 10
      [] tag = "fix"          -> 10
      [] tag = "rule"         -> 10
      [] tag = "technical"    -> 5
      [] tag = "architecture" -> 10
      [] tag = "lesson"       -> 15

RECURSIVE SumDeltas(_)
SumDeltas(tags) ==
    IF tags = <<>> THEN 0 ELSE TagDelta(Head(tags)) + SumDeltas(Tail(tags))

(***************************************************************************)
(* C16  The score scoreMemory returns is the clamp to 0..100 of: 50, plus  *)
(* the delta of each positive keyword group that matches the lowercased    *)
(* text (win 15, pattern 10, fix 10, rule 10, technical 5, architecture    *)
(* 10, lesson 15), a group counted once however often it occurs (its tag   *)
(* is in the tags once, exactly when the group matches), plus 5 for length *)
(* over 200 and 5 more for length over 500, minus 10 for error with 500,   *)
(* minus 20 for length under 30, minus 15 for skipping or no output, minus *)
(* 10 for test without backtest.  A trader record of length 250 whose only *)
(* signal is "win" scores 70, with category trading_win_pattern and the    *)
(* tag "win".                                                              *)
(***************************************************************************)
C16_HeuristicScoreFormula ==
    pc = "scored" =>
        LET text == toLowerCase(fnIn.text)
            len  == Length(fnIn.text)
            tags == fnOut.tags
            sum  == 50 + SumDeltas(tags)
                    + (IF len > 200 THEN 5 ELSE 0)
                    + (IF len > 500 THEN 5 ELSE 0)
                    - (IF includes(text, "error") /\ includes(text, "500") THEN 10 ELSE 0)
                    - (IF len < 30 THEN 20 ELSE 0)
                    - (IF includes(text, "skipping") \/ includes(text, "no output")
                       THEN 15 ELSE 0)
                    - (IF includes(text, "test") /\ ~includes(text, "backtest")
                       THEN 10 ELSE 0)
        IN  /\ fnOut.qualityScore = Max(0, Min(100, sum))
            /\ \A i, j \in 1..Len(tags) : tags[i] = tags[j] => i = j
            /\ \A k \in 1..Len(PositiveSignals) :
                   SeqIncludes(tags, PositiveSignals[k].tag)
                       <=> AnyOf(text, PositiveSignals[k].kws)
            /\ (fnIn.source_agent = "trader" /\ len = 250 /\ tags = <<"win">>
                    /\ sum = 70) =>
                   /\ fnOut.qualityScore = 70
                   /\ fnOut.category = "trading_win_pattern"

\* the trader record of length 250 whose only signal is "win"
C16_Witness ==
    /\ pc = "scored"
    /\ fnIn.source_agent = "trader"
    /\ fnIn.text = [head |-> "win", fill |-> 247, tail |-> ""]
    /\ fnOut.tags = <<"win">>
    /\ fnOut.qualityScore = 70
    /\ fnOut.category = "trading_win_pattern"

\* the position in calls of the last fetch (0 when there is none)
LastFetch ==
    IF CallsOf("getAllMemories") = {} THEN 0
    ELSE CHOOSE i \in CallsOf("getAllMemories") :
             \A j \in CallsOf("getAllMemories") : j <= i

\* the requests and pauses of the scoreBatch call on the group fetched last
BatchCalls ==
    LET Test(c) == c.op \in {"chat/completions", "setTimeout"}
    IN  SelectSeq(SubSeq(calls, LastFetch + 1, Len(calls)), Test)

Ceil(n, d) == (n + d - 1) \div d

(***************************************************************************)
(* C17  One scoreBatch call over n records with batch size B issues        *)
(* exactly ceil(n/B) requests, one at a time and in chunk order: the       *)
(* request of the chunk at offset k*B is sent when the results hold the    *)
(* k*B records of the chunks before it.  A pacing pause follows every      *)
(* chunk but the last, and nothing follows the last chunk.                 *)
(***************************************************************************)
C17_OneRequestPerChunkInOrder ==
    (llmScorer.present /\ pc # "failed") =>
        LET B == llmScorer.batchSize
            n == Len(filtered)
            k == Len(BatchCalls)
        IN  /\ \A j \in 1..k :
                   BatchCalls[j] =
                       (IF j % 2 = 1 THEN Call("chat/completions", ((j - 1) \div 2) * B)
                        ELSE Call("setTimeout", ((j \div 2) - 1) * B))
            /\ pc = "llm" =>
                   /\ k % 2 = 1
                   /\ BatchCalls[k].at = batchI
                   /\ Len(results) = batchI
                   /\ batchI < n
            /\ pc = "pause" =>
                   /\ k > 0 /\ k % 2 = 0
                   /\ BatchCalls[k].at = batchI
                   /\ Len(results) = batchI + B
                   /\ batchI + B < n
            /\ pc \in {"fetch", "ensure", "upsert", "snapshot", "done"} =>
                   /\ k = (IF n = 0 THEN 0 ELSE 2 * Ceil(n, B) - 1)
                   /\ Cardinality({j \in 1..k : BatchCalls[j].op = "chat/completions"})
                          = Ceil(n, B)
                   /\ Cardinality({j \in 1..k : BatchCalls[j].op = "setTimeout"})
                          = (IF n = 0 THEN 0 ELSE Ceil(n, B) - 1)

\* two records with batch size 1: two requests with one pause between them,
\* none after the second, and the run has returned
C17_Witness ==
    /\ Returned
    /\ llmScorer.present
    /\ llmScorer.batchSize = 1
    /\ Len(filtered) = 2
    /\ BatchCalls = <<Call("chat/completions", 0), Call("setTimeout", 0),
                      Call("chat/completions", 1)>>

\* the chunk whose response is lastResp, and the record returned for its
\* k-th memory
LastChunk == Chunk(filtered, batchI, llmScorer.batchSize)

ReturnedFor(k) == results[batchI + k]

\* the entries of the response whose index is the position idx
EntriesAt(idx) ==
    {lastResp.items[j] : j \in {i \in 1..Len(lastResp.items) :
                                   lastResp.items[i].index = Num(idx)}}

(***************************************************************************)
(* C18  When the response to a chunk parses but has no entry whose index   *)
(* is the position of a record, only that record falls back to the         *)
(* heuristic scorer (scoring method rule, tag "llm-fallback" appended):    *)
(* every record of the chunk that has an entry with its index is returned  *)
(* with scoring method llm.                                                *)
(***************************************************************************)
C18_OnlyUnmatchedRecordsFallBack ==
    lastResp.kind = "array" =>
        \A k \in 1..Len(LastChunk) :
            IF EntriesAt(k - 1) = {}
            THEN /\ ReturnedFor(k).scoringMethod = "rule"
                 /\ SeqIncludes(ReturnedFor(k).tags, "llm-fallback")
            ELSE ReturnedFor(k).scoringMethod = "llm"

(***************************************************************************)
(* C19  When the response has an entry whose index is the position of a    *)
(* record, the record is returned with scoring method llm, the tags        *)
(* category and "llm-scored", the category of the entry if it is in the    *)
(* closed set and noise otherwise, and the score of the entry clamped to   *)
(* 0..100, a score that is not finite (missing or not a number) counting   *)
(* as 50.                                                                  *)
(***************************************************************************)
C19_MatchedEntryGivesLlmRecord ==
    lastResp.kind = "array" =>
        \A k \in 1..Len(LastChunk) :
            EntriesAt(k - 1) # {} =>
                \E e \in EntriesAt(k - 1) :
                    LET r   == ReturnedFor(k)
                        cat == IF e.category \in ALLOWED_CATEGORIES
                               THEN e.category ELSE "noise"
                    IN  /\ r.scoringMethod = "llm"
                        /\ r.category = cat
                        /\ r.tags = <<cat, "llm-scored">>
                        /\ 10 * r.qualityScore =
                               (IF e.score.finite
                                THEN Min(1000, Max(0, e.score.tenths))
                                ELSE 10 * FallbackScore)

====
